---- MODULE Spec2Model ----
(***************************************************************************)
(* Model of src/src/distribution/categorical.rs: the Categorical           *)
(* distribution (construction, median, modes, entropy, cdf, inv_cdf, pmf,  *)
(* sample).                                                                *)
(*                                                                         *)
(* Encoding of f64.  A finite probability is an integer count of grid      *)
(* steps: One steps are 1.0, Half steps are 0.5 and EPSILON steps are the  *)
(* 1e-12 tolerance of `new`.  Sums of grid values are exact.  NaN and      *)
(* NegInf are two integers outside the grid; every arithmetic and          *)
(* comparison operator below treats them as IEEE-754 does.                 *)
(* Arguments of cdf are real cut points, counted in halves (x2 = 2*x), so  *)
(* that non-integer inputs exist.  The result of median is counted in      *)
(* halves too (res = 2 * median).  Entropy terms p*ln(p) are counted in    *)
(* units of 1/(One*1000).                                                  *)
(***************************************************************************)
EXTENDS Integers, Sequences, FiniteSets

\* ---- bounds of the model
MaxK == 4
MaxReads == 2

\* ---- f64 literals of the source
Half == 4
One == 2 * Half
EPSILON == 2
NaN == 0 - 999999
NegInf == 0 - 888888

IsNaN(a) == a = NaN

\* a + b on f64
FAdd(a, b) == IF IsNaN(a) \/ IsNaN(b) THEN NaN
              ELSE IF a = NegInf \/ b = NegInf THEN NegInf
              ELSE a + b

\* a - b on f64
FSub(a, b) == IF IsNaN(a) \/ IsNaN(b) THEN NaN ELSE a - b

\* a * b on f64 (b may be -inf; 0 * -inf is NaN)
FMul(a, b) == IF IsNaN(a) \/ IsNaN(b) THEN NaN
              ELSE IF b = NegInf THEN (IF a = 0 THEN NaN ELSE IF a > 0 THEN NegInf ELSE NaN)
              ELSE a * b

\* -a on f64
FNeg(a) == IF IsNaN(a) THEN NaN ELSE 0 - a

\* a.abs() on f64
FAbs(a) == IF IsNaN(a) THEN NaN ELSE IF a < 0 THEN 0 - a ELSE a

\* comparisons on f64: every comparison with NaN is false
FLt(a, b) == ~IsNaN(a) /\ ~IsNaN(b) /\ a < b
FGt(a, b) == ~IsNaN(a) /\ ~IsNaN(b) /\ a > b
FLe(a, b) == ~IsNaN(a) /\ ~IsNaN(b) /\ a <= b

\* ln(j/One) in thousandths, j = 1..One
LnTable == <<-2079, -1386, -981, -693, -470, -288, -134, 0>>

\* f64::ln on a grid value
Ln(a) == IF IsNaN(a) THEN NaN
         ELSE IF a < 0 THEN NaN
         ELSE IF a = 0 THEN NegInf
         ELSE IF a <= One THEN LnTable[a]
         ELSE 1

\* result of a call: how it ended, its scalar value, its vector value
Ret(o, r) == [out |-> o, res |-> r, resv |-> <<>>]
RetV(v) == [out |-> "ok", res |-> 0, resv |-> v]

\* should!(cond): validate or fail fast
should(cond) == cond

\* ---- Categorical::new, the validation block
\* faulty variant of scan: the upper bound p > 1.0 is not tested
RECURSIVE scan_noupper(_, _, _)
scan_noupper(v, i, sum) ==
    IF i > Len(v) THEN [in_unit |-> TRUE, sum |-> sum]
    ELSE IF FLt(v[i], 0) THEN [in_unit |-> FALSE, sum |-> sum]
    ELSE scan_noupper(v, i + 1, FAdd(sum, v[i]))

RECURSIVE scan(_, _, _)
scan(v, i, sum) ==
    IF i > Len(v) THEN [in_unit |-> TRUE, sum |-> sum]
    ELSE IF FLt(v[i], 0) \/ FGt(v[i], One) THEN [in_unit |-> FALSE, sum |-> sum]
    ELSE scan(v, i + 1, FAdd(sum, v[i]))

\* faulty variant of is_probability_vector: the sum is not tested
is_probability_vector_nosum(v) == scan(v, 1, 0).in_unit

is_probability_vector(v) ==
    LET s == scan(v, 1, 0)
    IN  s.in_unit /\ FLe(FAbs(FSub(s.sum, One)), EPSILON)

\* ---- Categorical::median (res = 2 * the returned f64)
\* faulty variant of median_loop: no midpoint when the sum is exactly 0.5
RECURSIVE median_loop_nomid(_, _, _, _)
median_loop_nomid(kk, pp, i, sum) ==
    IF i >= kk THEN Ret("unreachable", 0)
    ELSE LET s == sum + pp[i + 1]
         IN  IF s >= Half THEN Ret("ok", 2 * i)
             ELSE median_loop_nomid(kk, pp, i + 1, s)

RECURSIVE median_loop(_, _, _, _)
median_loop(kk, pp, i, sum) ==
    IF i >= kk THEN Ret("unreachable", 0)
    ELSE LET s == sum + pp[i + 1]
         IN  IF s = Half
             THEN (IF 2 * i - 1 < 0 THEN Ret("overflow", 0) ELSE Ret("ok", 2 * i - 1))
             ELSE IF s > Half THEN Ret("ok", 2 * i)
             ELSE median_loop(kk, pp, i + 1, s)

median(kk, pp) ==
    IF Len(pp) = 0 THEN Ret("index_oob", 0)
    ELSE IF pp[1] > Half THEN Ret("ok", 0)
    ELSE IF pp[1] = Half THEN Ret("ok", 1)
    ELSE median_loop(kk, pp, 0, 0)

\* ---- Categorical::modes
\* faulty variant of modes_loop: a new maximum is pushed without resetting the list
RECURSIVE modes_loop_noreset(_, _, _, _)
modes_loop_noreset(pp, i, ms, max) ==
    IF i >= Len(pp) THEN ms
    ELSE LET x == pp[i + 1]
         IN  IF x >= max THEN modes_loop_noreset(pp, i + 1, Append(ms, i), x)
             ELSE modes_loop_noreset(pp, i + 1, ms, max)

RECURSIVE modes_loop(_, _, _, _)
modes_loop(pp, i, ms, max) ==
    IF i >= Len(pp) THEN ms
    ELSE LET x == pp[i + 1]
             ms1 == IF x = max THEN Append(ms, i) ELSE ms
         IN  IF x > max THEN modes_loop(pp, i + 1, <<i>>, x)
             ELSE modes_loop(pp, i + 1, ms1, max)

modes(kk, pp) == RetV(modes_loop(pp, 0, <<>>, 0))

\* ---- Categorical::entropy
RECURSIVE entropy_fold(_, _, _)
entropy_fold(pp, i, sum) ==
    IF i > Len(pp) THEN sum
    ELSE entropy_fold(pp, i + 1, FAdd(sum, FMul(pp[i], Ln(pp[i]))))

entropy(kk, pp) == Ret("ok", FNeg(entropy_fold(pp, 1, 0)))

\* ---- Categorical::cdf (x2 = 2 * x)
RECURSIVE take_fold(_, _, _, _)
take_fold(pp, n, i, a) ==
    IF i > n \/ i > Len(pp) THEN a ELSE take_fold(pp, n, i + 1, a + pp[i])

\* faulty variant of as_usize: rounds to nearest instead of truncating
as_usize_round(x2) == (x2 + 1) \div 2

as_usize(x2) == x2 \div 2

\* faulty variant of cdf: take(x) instead of take(x + 1)
cdf_take_x(kk, pp, x2) ==
    IF x2 < 0 THEN Ret("ok", 0)
    ELSE LET x == as_usize(x2)
         IN  IF kk - 1 < 0 THEN Ret("overflow", 0)
             ELSE IF x >= kk - 1 THEN Ret("ok", One)
             ELSE Ret("ok", take_fold(pp, x, 1, 0))

\* faulty variant of cdf: the last outcome is summed instead of returning 1.0
cdf_no_shortcut(kk, pp, x2) ==
    IF x2 < 0 THEN Ret("ok", 0)
    ELSE LET x == as_usize(x2)
         IN  IF kk - 1 < 0 THEN Ret("overflow", 0)
             ELSE IF x >= kk THEN Ret("ok", One)
             ELSE Ret("ok", take_fold(pp, x + 1, 1, 0))

cdf(kk, pp, x2) ==
    IF x2 < 0 THEN Ret("ok", 0)
    ELSE LET x == as_usize(x2)
         IN  IF kk - 1 < 0 THEN Ret("overflow", 0)
             ELSE IF x >= kk - 1 THEN Ret("ok", One)
             ELSE Ret("ok", take_fold(pp, x + 1, 1, 0))

\* ---- Categorical::inv_cdf
RECURSIVE position(_, _)
position(pp, i) ==
    IF i >= Len(pp) THEN -1
    ELSE IF pp[i + 1] > 0 THEN i
    ELSE position(pp, i + 1)

\* faulty variant of inv_cdf_loop: sum > p instead of sum >= p
RECURSIVE inv_cdf_loop_strict(_, _, _, _, _)
inv_cdf_loop_strict(kk, pp, q, i, sum) ==
    IF i >= kk
    THEN (IF kk - 1 < 0 THEN Ret("overflow", 0) ELSE Ret("ok", kk - 1))
    ELSE LET s == sum + pp[i + 1]
         IN  IF s > q \/ s = One THEN Ret("ok", i)
             ELSE inv_cdf_loop_strict(kk, pp, q, i + 1, s)

RECURSIVE inv_cdf_loop(_, _, _, _, _)
inv_cdf_loop(kk, pp, q, i, sum) ==
    IF i >= kk
    THEN (IF kk - 1 < 0 THEN Ret("overflow", 0) ELSE Ret("ok", kk - 1))
    ELSE LET s == sum + pp[i + 1]
         IN  IF s >= q \/ s = One THEN Ret("ok", i)
             ELSE inv_cdf_loop(kk, pp, q, i + 1, s)

inv_cdf(kk, pp, q) ==
    IF ~should(FLe(0, q) /\ FLe(q, One)) THEN Ret("should", 0)
    ELSE IF q = 0
         THEN (IF position(pp, 0) < 0 THEN Ret("unwrap_none", 0)
               ELSE Ret("ok", position(pp, 0)))
         ELSE inv_cdf_loop(kk, pp, q, 0, 0)

\* ---- Categorical::pmf
pmf(kk, pp, x) == IF x >= Len(pp) THEN Ret("index_oob", 0) ELSE Ret("ok", pp[x + 1])

\* ---- Categorical::sample: one read of the source, mapped through inv_cdf
sample(kk, pp, u) == inv_cdf(kk, pp, u)

\* ---- inputs
F64In == {NaN} \cup (-1 .. One + 1)
VecIn == UNION {[1..n -> F64In] : n \in 0..MaxK}
CutIn == -3 .. 2 * MaxK + 1
ProbIn == -1 .. One + 1
UniformIn == 0 .. One - 1

VARIABLES has, k, p, op, arg, argv, out, res, resv, reads
vars == <<has, k, p, op, arg, argv, out, res, resv, reads>>

Init ==
    /\ has = FALSE /\ k = 0 /\ p = <<>>
    /\ op = "init" /\ arg = 0 /\ argv = <<>>
    /\ out = "ok" /\ res = 0 /\ resv = <<>>
    /\ reads = 0

Record(name, a, r) ==
    /\ op' = name /\ arg' = a
    /\ out' = r.out /\ res' = r.res /\ resv' = r.resv

New ==
    /\ op = "init"
    /\ \E v \in VecIn :
        /\ argv' = v
        /\ op' = "new" /\ arg' = 0 /\ res' = 0 /\ resv' = <<>>
        /\ IF should(is_probability_vector(v))
           THEN has' = TRUE /\ k' = Len(v) /\ p' = v /\ out' = "ok"
           ELSE has' = FALSE /\ k' = 0 /\ p' = <<>> /\ out' = "should"
    /\ UNCHANGED reads

Median ==
    /\ has
    /\ Record("median", 0, median(k, p))
    /\ UNCHANGED <<has, k, p, argv, reads>>

Modes ==
    /\ has
    /\ Record("modes", 0, modes(k, p))
    /\ UNCHANGED <<has, k, p, argv, reads>>

Entropy ==
    /\ has
    /\ Record("entropy", 0, entropy(k, p))
    /\ UNCHANGED <<has, k, p, argv, reads>>

Cdf ==
    /\ has
    /\ \E x2 \in CutIn : Record("cdf", x2, cdf(k, p, x2))
    /\ UNCHANGED <<has, k, p, argv, reads>>

InvCdf ==
    /\ has
    /\ \E q \in ProbIn : Record("inv_cdf", q, inv_cdf(k, p, q))
    /\ UNCHANGED <<has, k, p, argv, reads>>

Pmf ==
    /\ has
    /\ \E x \in 0..MaxK : Record("pmf", x, pmf(k, p, x))
    /\ UNCHANGED <<has, k, p, argv, reads>>

Sample ==
    /\ has
    /\ reads < MaxReads
    /\ \E u \in UniformIn :
        /\ reads' = reads + 1
        /\ Record("sample", u, sample(k, p, u))
    /\ UNCHANGED <<has, k, p, argv>>

Next == New \/ Median \/ Modes \/ Entropy \/ Cdf \/ InvCdf \/ Pmf \/ Sample

Spec == Init /\ [][Next]_vars

\* ---- mathematical reference definitions used by the properties
RECURSIVE SumTo(_, _)
SumTo(pp, n) == IF n <= 0 THEN 0 ELSE SumTo(pp, n - 1) + pp[n]

\* cumulative mass p[0] + ... + p[i] of the object
Cum(i) == SumTo(p, i + 1)
Total == SumTo(p, k)
Outcomes == 0 .. k - 1
Reaches(q) == {i \in Outcomes : Cum(i) >= q}
Positive == {i \in Outcomes : p[i + 1] > 0}
Smallest(S) == CHOOSE i \in S : \A j \in S : i <= j
Floor2(x2) == x2 \div 2
CdfAt(i) == cdf(k, p, 2 * i).res
Rises(i) == {j \in Outcomes : j > i /\ Cum(j) > Cum(i)}
NextRise(i) == IF Rises(i) # {} THEN Smallest(Rises(i)) ELSE k - 1
InRange(q) == 0 <= q /\ q <= One

\* C1 (as stated): inv_cdf(p), 0 < p <= 1, is the smallest outcome whose
\* cumulative mass is >= p, and inv_cdf(0) is the first outcome of positive mass.
C1_InvCdfSmallest ==
    (op = "inv_cdf" /\ InRange(arg)) =>
        /\ out = "ok"
        /\ IF arg = 0
           THEN Positive # {} /\ res = Smallest(Positive)
           ELSE Reaches(arg) # {} /\ res = Smallest(Reaches(arg))

\* C1 (amended): inv_cdf(p), 0 < p <= 1, is the smallest outcome whose
\* cumulative mass is >= p when one exists and k - 1 when the total mass is
\* below p; inv_cdf(0) is the first outcome of positive mass.
C1_InvCdfSmallestOrLast ==
    (op = "inv_cdf" /\ InRange(arg)) =>
        /\ out = "ok"
        /\ IF arg = 0
           THEN Positive # {} /\ res = Smallest(Positive)
           ELSE res = IF Reaches(arg) # {} THEN Smallest(Reaches(arg)) ELSE k - 1

C1_Witness ==
    /\ op = "inv_cdf" /\ out = "ok" /\ arg > 0 /\ arg <= One
    /\ Reaches(arg) = {} /\ res = k - 1

\* C2: cdf(x) is 0 below the support, 1.0 at or beyond the last outcome,
\* otherwise the mass of the outcomes <= floor(x); cdf(x) = cdf(floor(x)).
C2_Cdf ==
    op = "cdf" =>
        /\ out = "ok"
        /\ arg < 0 => res = 0
        /\ (arg >= 0 /\ Floor2(arg) >= k - 1) => res = One
        /\ (arg >= 0 /\ Floor2(arg) < k - 1) => res = Cum(Floor2(arg))
        /\ res = cdf(k, p, 2 * Floor2(arg)).res

C2_Witness ==
    /\ op = "cdf" /\ out = "ok" /\ arg > 0 /\ arg % 2 = 1
    /\ Floor2(arg) < k - 1 /\ res > 0 /\ res < One

C5_Median ==
    op = "median" =>
        /\ out = "ok"
        /\ Reaches(Half) # {}
        /\ LET i == Smallest(Reaches(Half))
           IN  res = IF Cum(i) > Half THEN 2 * i
                     ELSE IF i >= 1 THEN 2 * i - 1
                     ELSE 1

C5_Witness == op = "median" /\ out = "ok" /\ res = 3 /\ Cum(2) = Half

\* C6: modes() lists exactly the outcomes of maximal mass, in strictly
\* ascending order.
C6_Modes ==
    op = "modes" =>
        /\ out = "ok"
        /\ {resv[n] : n \in 1..Len(resv)}
              = {i \in Outcomes : \A j \in Outcomes : p[j + 1] <= p[i + 1]}
        /\ \A n \in 1..Len(resv) - 1 : resv[n] < resv[n + 1]

C6_Witness == op = "modes" /\ out = "ok" /\ p[1] = 0 /\ Len(resv) >= 2

\* C7: new(v) fails exactly when an entry of v is outside [0, 1] or sum(v)
\* differs from 1.0 by more than 1e-12; otherwise the object has k = len(v)
\* and p = v.
OutsideUnit(x) == IsNaN(x) \/ x < 0 \/ x > One
C7_New ==
    op = "new" =>
        LET n == Len(argv)
            bad == \/ \E j \in 1..n : OutsideUnit(argv[j])
                   \/ SumTo(argv, n) - One > EPSILON
                   \/ One - SumTo(argv, n) > EPSILON
        IN  /\ out # "ok" <=> bad
            /\ out # "ok" => ~has
            /\ out = "ok" => (has /\ k = n /\ p = argv)

C7_Witness ==
    /\ op = "new" /\ out = "ok" /\ has /\ k >= 2
    /\ SumTo(argv, Len(argv)) = One + EPSILON

\* C8 (as stated): entropy() skips zero-mass terms and returns the non-NaN
\* value -sum p[i]*ln(p[i]) over the outcomes of positive mass.
RECURSIVE PLnP(_, _)
PLnP(pp, n) ==
    IF n <= 0 THEN 0
    ELSE PLnP(pp, n - 1) + (IF pp[n] > 0 THEN pp[n] * LnTable[pp[n]] ELSE 0)

C8_EntropySkipsZero ==
    op = "entropy" =>
        /\ out = "ok"
        /\ ~IsNaN(res)
        /\ res = 0 - PLnP(p, k)

\* C9 (as stated): sample() returns inv_cdf of the draw it read, and every
\* value sample or inv_cdf(p), 0 <= p <= 1, returns is an outcome of strictly
\* positive mass.
C9_PositiveMass ==
    /\ op = "sample" => (out = "ok" /\ res = inv_cdf(k, p, arg).res)
    /\ (op \in {"sample", "inv_cdf"} /\ InRange(arg)) =>
          /\ out = "ok"
          /\ res \in Outcomes
          /\ p[res + 1] > 0

\* C10: every object new returns has k >= 1, and median(), cdf(x) and
\* inv_cdf(0) return a value on it without aborting.
C10_NoAbort ==
    /\ has => (k >= 1 /\ k = Len(p))
    /\ op \in {"median", "cdf"} => out = "ok"
    /\ (op = "inv_cdf" /\ arg = 0) => out = "ok"

C10_Witness ==
    /\ op = "inv_cdf" /\ arg = 0 /\ out = "ok" /\ p[1] = 0 /\ res >= 1
====
